---- MODULE Spec2Model ----
(***************************************************************************)
(* A model of darch's image handling:                                      *)
(*   - images.go: BuildDefinition, verifyDependencies, BuildAllDefinitions *)
(*     (dependency validation), BuildImageLayer and ExtractImage (docker   *)
(*     command-line backend), destroyContainer;                            *)
(*   - the containerd Session.ExtractImage (lease, snapshot, container).   *)
(* Strings are sequences of characters; the markers the code compares      *)
(* against ("external:", "darch-building-", ...) are single characters of  *)
(* the alphabet, so prefix tests, concatenation and replacement are the    *)
(* ordinary sequence operations.                                           *)
(***************************************************************************)
EXTENDS Integers, Sequences, FiniteSets, TLC

VARIABLES
    \* ---- BuildAllDefinitions (images.go:86-116)
    dir,                \* the images directory: child directory name -> config.json state
    bpc,                \* position of BuildAllDefinitions
    toLoad,             \* image names the load loop has not visited yet
    imageDefinitions,   \* the map built by the load loop
    toVerify,           \* map entries the verify loop has not visited yet
    walks,              \* entry name -> outcome of its verifyDependencies walk
    bret,               \* what BuildAllDefinitions returned
    \* ---- BuildImageLayer, ExtractImage, Session.ExtractImage
    procs,              \* operation in progress -> its arguments, position, pending defers, result
    containers,         \* the docker daemon: container name -> "running" | "exited"
    images,             \* the docker daemon: the image references of the local store
    snapshots,          \* containerd: the keys of the snapshots that exist
    leases,             \* containerd: the operations holding a lease
    nextID,             \* the number of identifiers utils.NewID has handed out
    dest                \* the destination directory of an extraction

depVars == <<dir, bpc, toLoad, imageDefinitions, toVerify, walks, bret>>
opVars == <<procs, containers, images, snapshots, leases, nextID, dest>>

vars == <<depVars, opVars>>

(***************************************************************************)
(* Bounds                                                                  *)
(***************************************************************************)
NumImages == 3

(***************************************************************************)
(* Strings                                                                 *)
(***************************************************************************)
Letters == <<"a", "b", "c", "d", "e">>

\* strings.HasPrefix
HasPrefix(s, prefix) ==
    /\ Len(s) >= Len(prefix)
    /\ SubSeq(s, 1, Len(prefix)) = prefix

ExternalMarker == <<"external:">>

\* The names of the child directories of the images directory.
ImageNames == { <<Letters[i]>> : i \in 1..NumImages }

\* A name that is no child directory, and an external base.
MissingName == <<"z">>
ExternalRef == <<"external:", "o", "s">>

\* The values "inherits" takes in a config.json, the empty string included.
InheritsValues == ImageNames \cup {MissingName, ExternalRef, <<>>}

\* The states of <image>/config.json
NoConfig == [file |-> "absent", inherits |-> <<>>]
BadConfig == [file |-> "malformed", inherits |-> <<>>]
Config(inh) == [file |-> "json", inherits |-> inh]
ConfigStates == {NoConfig, BadConfig} \cup { Config(i) : i \in InheritsValues }

NoError == [kind |-> "nil", image |-> <<>>, parent |-> <<>>]
Error(k, image, parent) == [kind |-> k, image |-> image, parent |-> parent]

(***************************************************************************)
(* loadImageConfiguration, BuildDefinition                                 *)
(***************************************************************************)
loadImageConfiguration(name, cfg) ==
    IF cfg.file = "absent" THEN [err |-> Error("noConfig", name, <<>>), inherits |-> <<>>]
    ELSE IF cfg.file = "malformed" THEN [err |-> Error("badConfig", name, <<>>), inherits |-> <<>>]
    ELSE IF Len(cfg.inherits) = 0 THEN [err |-> Error("noInherit", name, <<>>), inherits |-> <<>>]
    ELSE [err |-> NoError, inherits |-> cfg.inherits]

\* BuildDefinition: the definition read from directory `name`, or the error.
BuildDefinition(name, d) ==
    IF Len(name) = 0 THEN [err |-> Error("noImage", name, <<>>), def |-> [Name |-> <<>>, Inherits |-> <<>>]]
    ELSE IF name \notin DOMAIN d
         THEN [err |-> Error("noDirectory", name, <<>>), def |-> [Name |-> <<>>, Inherits |-> <<>>]]
    ELSE LET c == loadImageConfiguration(name, d[name])
         IN  IF c.err # NoError
             THEN [err |-> c.err, def |-> [Name |-> <<>>, Inherits |-> <<>>]]
             ELSE [err |-> NoError, def |-> [Name |-> name, Inherits |-> c.inherits]]

(***************************************************************************)
(* verifyDependencies                                                      *)
(***************************************************************************)
\* The outcome of a walk: the error (NoError on success) and the number of
\* calls of verifyDependencies the walk made.
Outcome(err, steps) == [err |-> err, steps |-> steps]

\* images.go:70-73: the parent is already on the current stack.
cyclicalMutant(def) == NoError
cyclical(def) == Error("cyclical", def.Name, <<>>)

\* images.go:82: the parent is no key of the map.
unresolvedMutant(def) == Error("unresolved", def.Inherits, def.Name)
unresolved(def) == Error("unresolved", def.Name, def.Inherits)

\* images.go:65-68: the chain ends at an external reference.
isExternalMutant(def) == def.Inherits = ExternalMarker
isExternal(def) == HasPrefix(def.Inherits, ExternalMarker)

\* images.go:60-83: one call of verifyDependencies; `steps` counts the calls
\* of the walk so far, this one included.
RECURSIVE verifyWalkUnmarked(_, _, _, _)
RECURSIVE verifyWalk(_, _, _, _)
verifyWalkUnmarked(def, defs, currentStack, steps) ==
    IF isExternal(def) THEN Outcome(NoError, steps)
    ELSE IF def.Inherits \in currentStack THEN Outcome(cyclical(def), steps)
    ELSE IF steps > Cardinality(DOMAIN defs) + 1
         THEN Outcome(Error("overflow", def.Name, def.Inherits), steps)
    ELSE IF def.Inherits \in DOMAIN defs
         THEN verifyWalkUnmarked(defs[def.Inherits], defs, currentStack, steps + 1)
    ELSE Outcome(unresolved(def), steps)
verifyWalk(def, defs, currentStack, steps) ==
    IF isExternal(def) THEN Outcome(NoError, steps)
    ELSE IF def.Inherits \in currentStack THEN Outcome(cyclical(def), steps)
    ELSE IF def.Inherits \in DOMAIN defs
         THEN verifyWalk(defs[def.Inherits], defs, currentStack \cup {def.Name}, steps + 1)
    ELSE Outcome(unresolved(def), steps)

\* verifyDependencies(imageDefinition, imageDefinitions, nil)
verifyDependencies(def, defs) == verifyWalk(def, defs, {}, 1)

(***************************************************************************)
(* BuildAllDefinitions                                                     *)
(***************************************************************************)
EmptyMap == [n \in {} |-> [Name |-> <<>>, Inherits |-> <<>>]]
NotReturned == [returned |-> FALSE, isNil |-> TRUE, defs |-> EmptyMap, err |-> NoError]
Returned(isNil, defs, err) == [returned |-> TRUE, isNil |-> isNil, defs |-> defs, err |-> err]

\* What BuildAllDefinitions returns on an error.
returnErrorMutant(defs, err) == Returned(FALSE, defs, err)
returnError(defs, err) == Returned(TRUE, EmptyMap, err)

InitDeps ==
    /\ dir \in UNION { [S -> ConfigStates] : S \in SUBSET ImageNames }
    /\ bpc = "start"
    /\ toLoad = {}
    /\ imageDefinitions = EmptyMap
    /\ toVerify = {}
    /\ walks = [n \in {} |-> Outcome(NoError, 0)]
    /\ bret = NotReturned
    /\ procs = <<>>
    /\ containers = <<>>
    /\ images = {}
    /\ snapshots = {}
    /\ leases = {}
    /\ nextID = 0
    /\ dest = [exists |-> FALSE, files |-> {}]

\* images.go:87-97: the argument check and the directory listing.
BuildAllStart ==
    /\ bpc = "start"
    /\ \E outcome \in {"ok", "noImagesDir", "listFailed"} :
        IF outcome = "ok"
        THEN /\ bpc' = "load"
             /\ toLoad' = DOMAIN dir
             /\ bret' = bret
        ELSE /\ bpc' = "returned"
             /\ toLoad' = toLoad
             /\ bret' = returnError(imageDefinitions, Error(outcome, <<>>, <<>>))
    /\ UNCHANGED <<dir, imageDefinitions, toVerify, walks>>
    /\ UNCHANGED opVars

\* images.go:99-105: one iteration of the load loop.
LoadOne ==
    /\ bpc = "load"
    /\ \E name \in toLoad :
        LET r == BuildDefinition(name, dir)
        IN  IF r.err # NoError
            THEN /\ bpc' = "returned"
                 /\ bret' = returnError(imageDefinitions, r.err)
                 /\ UNCHANGED <<toLoad, imageDefinitions>>
            ELSE /\ imageDefinitions' = [n \in DOMAIN imageDefinitions \cup {name} |->
                                            IF n = name THEN r.def ELSE imageDefinitions[n]]
                 /\ toLoad' = toLoad \ {name}
                 /\ UNCHANGED <<bpc, bret>>
    /\ UNCHANGED <<dir, toVerify, walks>>
    /\ UNCHANGED opVars

\* images.go:105-108: the load loop ends, the verify loop begins.
LoadDone ==
    /\ bpc = "load"
    /\ toLoad = {}
    /\ bpc' = "verify"
    /\ toVerify' = DOMAIN imageDefinitions
    /\ UNCHANGED <<dir, toLoad, imageDefinitions, walks, bret>>
    /\ UNCHANGED opVars

\* images.go:108-113: one iteration of the verify loop, in the map's order.
VerifyOne ==
    /\ bpc = "verify"
    /\ \E name \in toVerify :
        LET r == verifyDependencies(imageDefinitions[name], imageDefinitions)
        IN  /\ walks' = [n \in DOMAIN walks \cup {name} |-> IF n = name THEN r ELSE walks[n]]
            /\ IF r.err # NoError
               THEN /\ bpc' = "returned"
                    /\ bret' = returnError(imageDefinitions, r.err)
                    /\ UNCHANGED toVerify
               ELSE /\ toVerify' = toVerify \ {name}
                    /\ UNCHANGED <<bpc, bret>>
    /\ UNCHANGED <<dir, toLoad, imageDefinitions>>
    /\ UNCHANGED opVars

\* images.go:115: every walk succeeded.
ReturnAll ==
    /\ bpc = "verify"
    /\ toVerify = {}
    /\ bpc' = "returned"
    /\ bret' = Returned(FALSE, imageDefinitions, NoError)
    /\ UNCHANGED <<dir, toLoad, imageDefinitions, toVerify, walks>>
    /\ UNCHANGED opVars

NextDeps ==
    \/ BuildAllStart
    \/ LoadOne
    \/ LoadDone
    \/ VerifyOne
    \/ ReturnAll

SpecDeps == InitDeps /\ [][NextDeps]_vars

(***************************************************************************)
(* Names and references (images.go:130-140, 213, 220, 232-237)             *)
(***************************************************************************)
MaxTags == 2
\* The number of calls one caller makes in succession.
MaxCalls == 2

TagPool == << <<"t">>, <<"u">>, <<"v">>, <<"w">> >>
TagLists == { SubSeq(TagPool, 1, k) : k \in 0..MaxTags }

\* strings.Replace(name, "/", "", -1)
stripSlashes(s) == SelectSeq(s, LAMBDA c : c # "/")

\* images.go:130-135: the parent the build container is started from.
parentReferencePrefixed(inherits, buildPrefix) ==
    IF HasPrefix(inherits, ExternalMarker)
    THEN buildPrefix \o SubSeq(inherits, Len(ExternalMarker) + 1, Len(inherits))
    ELSE buildPrefix \o inherits
parentReference(inherits, buildPrefix) ==
    IF HasPrefix(inherits, ExternalMarker)
    THEN SubSeq(inherits, Len(ExternalMarker) + 1, Len(inherits))
    ELSE buildPrefix \o inherits

\* images.go:140
buildContainerName(name) == <<"darch-building-">> \o name

\* images.go:232
extractContainerName(name) == <<"darch-extracting-">> \o stripSlashes(name)

\* images.go:234-237
extractImageName(name, tag) == IF Len(tag) > 0 THEN name \o <<":">> \o tag ELSE name

\* images.go:213: the reference the build is committed as.
commitTarget(buildPrefix, name) == buildPrefix \o name

\* images.go:220: the source and the target of a tag command.
tagSource(buildPrefix, name) == name
tagTarget(buildPrefix, name, tag) == buildPrefix \o name \o <<":">> \o tag

(***************************************************************************)
(* Operations in progress                                                  *)
(***************************************************************************)
NotDone == [returned |-> FALSE, err |-> "nil"]
Done(err) == [returned |-> TRUE, err |-> err]

\* An operation that has not been called yet.
IdleProc ==
    [op |-> "idle", pc |-> "idle",
     name |-> <<>>, inherits |-> <<>>, tags |-> <<>>, prefix |-> <<>>, tag |-> <<>>,
     cache |-> "none", cname |-> <<>>, ti |-> 1,
     pending |-> "nil", defers |-> <<>>, log |-> <<>>, ret |-> NotDone,
     earlier |-> <<>>]

\* A command an operation issued or a call it made, its two arguments and
\* whether it succeeded.
Ev(cmd, a, b, ok) == [cmd |-> cmd, a |-> a, b |-> b, ok |-> ok]

\* The operation's log gets the event, with the statement that issued it.
\* An error is named after the statement whose call returned it.
Logged(r, ev) ==
    [r EXCEPT !.log = Append(@, [step |-> r.pc, cmd |-> ev.cmd, a |-> ev.a, b |-> ev.b, ok |-> ev.ok])]
At(r, pc) == [r EXCEPT !.pc = pc]
Return(r, err) == [r EXCEPT !.pc = "returned", !.ret = Done(err)]

InOp(p, op, pc) == p \in DOMAIN procs /\ procs[p].op = op /\ procs[p].pc = pc

(***************************************************************************)
(* The docker daemon, as runCommand("docker", ...) sees it                 *)
(***************************************************************************)
\* Whether the daemon can carry the command out: a container name is taken
\* from its creation to its removal, a command in a container needs it to
\* run, a removal needs it to have stopped, a tag needs its source image.
dockerCan(cmd, a, b) ==
    CASE cmd = "run" -> a \notin DOMAIN containers
      [] cmd \in {"exec", "cp", "commit"} -> a \in DOMAIN containers /\ containers[a] = "running"
      [] cmd = "stop" -> a \in DOMAIN containers
      [] cmd = "rm" -> a \in DOMAIN containers /\ containers[a] = "exited"
      [] cmd = "tag" -> a \in images
      [] OTHER -> TRUE

containersAfter(cmd, a) ==
    CASE cmd = "run" -> [n \in DOMAIN containers \cup {a} |-> IF n = a THEN "running" ELSE containers[n]]
      [] cmd = "stop" -> [containers EXCEPT ![a] = "exited"]
      [] cmd = "rm" -> [n \in DOMAIN containers \ {a} |-> containers[n]]
      [] OTHER -> containers

imagesAfter(cmd, a, b) ==
    CASE cmd \in {"commit", "tag"} -> images \cup {b}
      [] OTHER -> images

\* runCommand("docker", cmd, ...): the command fails or, when the daemon can
\* carry it out, succeeds and takes effect.
runCommand(cmd, a, b, ok) ==
    /\ ok => dockerCan(cmd, a, b)
    /\ containers' = IF ok THEN containersAfter(cmd, a) ELSE containers
    /\ images' = IF ok THEN imagesAfter(cmd, a, b) ELSE images

(***************************************************************************)
(* destroyContainer (images.go:319-331) and the error branches that call   *)
(* it (images.go:163-166 and the like)                                     *)
(***************************************************************************)
\* A command failed after the container was started:
\*     destroyContainer(tmpImageName); return err
stepFailedNoDestroy(r, e) == Return(r, e)
stepFailed(r, e) == [r EXCEPT !.pc = "stop", !.pending = e]

\* The last statement: return destroyContainer(tmpImageName)
finishWithoutDestroy(r) == Return(r, "nil")
finish(r) == [r EXCEPT !.pc = "stop", !.pending = "nil"]

\* What the operation returns once destroyContainer has returned derr: the
\* error of the failed command, whose branch drops derr, or derr itself at
\* the last statement.
returnAfterDestroyMasked(pending, derr) == IF derr # "nil" THEN derr ELSE pending
returnAfterDestroy(pending, derr) == IF pending # "nil" THEN pending ELSE derr

\* images.go:320-323: destroyContainer is entered and issues docker stop.
DestroyStop(p) ==
    /\ p \in DOMAIN procs /\ procs[p].pc = "stop"
    /\ \E ok \in BOOLEAN :
        LET r == procs[p]
            l == Logged(Logged(r, Ev("destroyContainer", r.cname, <<>>, TRUE)),
                        Ev("stop", r.cname, <<>>, ok))
        IN  /\ runCommand("stop", r.cname, <<>>, ok)
            /\ procs' = [procs EXCEPT ![p] =
                    IF ok THEN At(l, "rm")
                    ELSE Return(l, returnAfterDestroy(r.pending, "stop"))]
    /\ UNCHANGED <<snapshots, leases, nextID, dest>>
    /\ UNCHANGED depVars

\* images.go:325-330: docker rm, and the return.
DestroyRm(p) ==
    /\ p \in DOMAIN procs /\ procs[p].pc = "rm"
    /\ \E ok \in BOOLEAN :
        LET r == procs[p]
            l == Logged(r, Ev("rm", r.cname, <<>>, ok))
        IN  /\ runCommand("rm", r.cname, <<>>, ok)
            /\ procs' = [procs EXCEPT ![p] =
                    Return(l, returnAfterDestroy(r.pending, IF ok THEN "nil" ELSE "rm"))]
    /\ UNCHANGED <<snapshots, leases, nextID, dest>>
    /\ UNCHANGED depVars

(***************************************************************************)
(* BuildImageLayer (images.go:119-228)                                     *)
(***************************************************************************)
BuildNames == {<<"a">>, <<"b">>}
BuildPrefixes == {<<>>, <<"p", "/">>}
BuildInherits == {ExternalRef, <<"a">>}

\* packageCache: not given, an existing directory, a directory to create.
CacheStates == {"none", "exists", "absent"}

BuildInputs ==
    [name : BuildNames, inherits : BuildInherits, tags : TagLists,
     prefix : BuildPrefixes, cache : CacheStates]

\* The call: the arguments are bound and tmpImageName is computed.
BuildImageLayer(p, in) ==
    /\ InOp(p, "idle", "idle")
    /\ procs' = [procs EXCEPT ![p] =
            [@ EXCEPT !.op = "build", !.pc = "packageCache",
                      !.name = in.name, !.inherits = in.inherits, !.tags = in.tags,
                      !.prefix = in.prefix, !.cache = in.cache,
                      !.cname = buildContainerName(in.name)]]
    /\ UNCHANGED <<containers, images, snapshots, leases, nextID, dest>>
    /\ UNCHANGED depVars

\* images.go:121-128: the package cache directory is created when missing.
BuildPackageCache(p) ==
    /\ InOp(p, "build", "packageCache")
    /\ LET r == procs[p]
       IN  IF r.cache = "absent"
           THEN \E ok \in BOOLEAN :
                    LET l == Logged(r, Ev("MkdirAll", <<"packageCache">>, <<>>, ok))
                    IN  procs' = [procs EXCEPT ![p] =
                            IF ok THEN At(l, "run") ELSE Return(l, "packageCache")]
           ELSE procs' = [procs EXCEPT ![p] = At(r, "run")]
    /\ UNCHANGED <<containers, images, snapshots, leases, nextID, dest>>
    /\ UNCHANGED depVars

\* images.go:142-158: docker run -d ... --name tmpImageName inherits
BuildRun(p) ==
    /\ InOp(p, "build", "run")
    /\ \E ok \in BOOLEAN :
        LET r == procs[p]
            l == Logged(r, Ev("run", r.cname, parentReference(r.inherits, r.prefix), ok))
        IN  /\ runCommand("run", r.cname, parentReference(r.inherits, r.prefix), ok)
            /\ procs' = [procs EXCEPT ![p] =
                    IF ok THEN At(l, "mkdirImages") ELSE Return(l, "run")]
    /\ UNCHANGED <<snapshots, leases, nextID, dest>>
    /\ UNCHANGED depVars

\* One docker command of the operation `op` at `here`, in its container:
\* on success the operation goes on at `next`, on failure it destroys the
\* container and returns the command's error.
ContainerStepUnchecked(p, op, here, next, cmd, b) ==
    /\ InOp(p, op, here)
    /\ \E ok \in BOOLEAN :
        LET r == procs[p]
            l == Logged(r, Ev(cmd, r.cname, b, ok))
        IN  /\ runCommand(cmd, r.cname, b, ok)
            /\ procs' = [procs EXCEPT ![p] = At(l, next)]
    /\ UNCHANGED <<snapshots, leases, nextID, dest>>
    /\ UNCHANGED depVars
ContainerStep(p, op, here, next, cmd, b) ==
    /\ InOp(p, op, here)
    /\ \E ok \in BOOLEAN :
        LET r == procs[p]
            l == Logged(r, Ev(cmd, r.cname, b, ok))
        IN  /\ runCommand(cmd, r.cname, b, ok)
            /\ procs' = [procs EXCEPT ![p] =
                    IF ok THEN At(l, next) ELSE stepFailed(l, here)]
    /\ UNCHANGED <<snapshots, leases, nextID, dest>>
    /\ UNCHANGED depVars

\* images.go:162-166: mkdir /root.x86_64/images/
BuildMkdirImages(p) ==
    ContainerStep(p, "build", "mkdirImages", "mountImages", "exec", <<"mkdir images">>)

\* images.go:167-171: chroot_add_mount /images
BuildMountImages(p) ==
    ContainerStep(p, "build", "mountImages",
                  IF procs[p].cache # "none" THEN "mkdirPackages" ELSE "script",
                  "exec", <<"chroot_add_mount images">>)

\* images.go:172-177: mkdir -p /root.x86_64/var/cache/pacman/pkg/
BuildMkdirPackages(p) ==
    ContainerStep(p, "build", "mkdirPackages", "mountPackages", "exec", <<"mkdir packages">>)

\* images.go:178-183: chroot_add_mount /packages
BuildMountPackages(p) ==
    ContainerStep(p, "build", "mountPackages", "script", "exec", <<"chroot_add_mount packages">>)

\* images.go:184-201: cd /images/<name> && ./script
BuildScript(p) ==
    ContainerStep(p, "build", "script", "rmImages", "exec", <<"script">> \o procs[p].name)

\* images.go:202-206: rm -r /root.x86_64/images
BuildRmImages(p) ==
    ContainerStep(p, "build", "rmImages", "rmPackages", "exec", <<"rm images">>)

\* images.go:207-211: rm -r -f /root.x86_64/var/cache/pacman/pkg/
BuildRmPackages(p) ==
    ContainerStep(p, "build", "rmPackages", "commit", "exec", <<"rm packages">>)

\* images.go:213-217: docker commit tmpImageName buildPrefix+Name
BuildCommit(p) ==
    ContainerStep(p, "build", "commit", "tag", "commit",
                  commitTarget(procs[p].prefix, procs[p].name))

\* images.go:219-225: one iteration of the tag loop.
BuildTagContinues(p) ==
    /\ InOp(p, "build", "tag")
    /\ procs[p].ti <= Len(procs[p].tags)
    /\ \E ok \in BOOLEAN :
        LET r == procs[p]
            src == tagSource(r.prefix, r.name)
            dst == tagTarget(r.prefix, r.name, r.tags[r.ti])
            l == Logged(r, Ev("tag", src, dst, ok))
        IN  /\ runCommand("tag", src, dst, ok)
            /\ procs' = [procs EXCEPT ![p] = [l EXCEPT !.ti = @ + 1]]
    /\ UNCHANGED <<snapshots, leases, nextID, dest>>
    /\ UNCHANGED depVars
BuildTag(p) ==
    /\ InOp(p, "build", "tag")
    /\ procs[p].ti <= Len(procs[p].tags)
    /\ \E ok \in BOOLEAN :
        LET r == procs[p]
            src == tagSource(r.prefix, r.name)
            dst == tagTarget(r.prefix, r.name, r.tags[r.ti])
            l == Logged(r, Ev("tag", src, dst, ok))
        IN  /\ runCommand("tag", src, dst, ok)
            /\ procs' = [procs EXCEPT ![p] =
                    IF ok THEN [l EXCEPT !.ti = @ + 1] ELSE stepFailed(l, "tag")]
    /\ UNCHANGED <<snapshots, leases, nextID, dest>>
    /\ UNCHANGED depVars

\* images.go:225-227: the tag loop is over.
BuildFinish(p) ==
    /\ InOp(p, "build", "tag")
    /\ procs[p].ti > Len(procs[p].tags)
    /\ procs' = [procs EXCEPT ![p] = finish(@)]
    /\ UNCHANGED <<containers, images, snapshots, leases, nextID, dest>>
    /\ UNCHANGED depVars

(***************************************************************************)
(* ExtractImage, docker (images.go:231-281)                                *)
(***************************************************************************)
ExtractNames == {<<"a">>, <<"a", "b">>, <<"a", "/", "b">>}
ExtractTags == {<<>>, <<"t">>}
ExtractInputs == [name : ExtractNames, tag : ExtractTags]

\* A file of the destination directory: its path below the directory and
\* where its contents come from.
File(path, content) == [path |-> path, content |-> content]
OldFiles == {File(<<"old">>, <<"old">>), File(<<"rootfs.squash">>, <<"old">>)}
DestStates ==
    {[exists |-> FALSE, files |-> {}], [exists |-> TRUE, files |-> {}],
     [exists |-> TRUE, files |-> OldFiles]}

\* CopyFile, docker cp: the file at `path` is created or replaced.
written(files, path, content) ==
    {f \in files : f.path # path} \cup {File(path, content)}

\* The call: tmpImageName is computed.
ExtractImage(p, in) ==
    /\ InOp(p, "idle", "idle")
    /\ procs' = [procs EXCEPT ![p] =
            [@ EXCEPT !.op = "extract", !.pc = "mkdirDest",
                      !.name = in.name, !.tag = in.tag,
                      !.cname = extractContainerName(in.name)]]
    /\ UNCHANGED <<containers, images, snapshots, leases, nextID, dest>>
    /\ UNCHANGED depVars

\* The caller runs the extraction that succeeded once more, with the same
\* arguments; what the call before left in the destination is kept aside.
ExtractImageAgain(p) ==
    /\ InOp(p, "extract", "returned")
    /\ procs[p].ret.err = "nil"
    /\ Len(procs[p].earlier) + 1 < MaxCalls
    /\ procs' = [procs EXCEPT ![p] =
            [IdleProc EXCEPT !.op = "extract", !.pc = "mkdirDest",
                             !.name = procs[p].name, !.tag = procs[p].tag,
                             !.cname = extractContainerName(procs[p].name),
                             !.earlier = Append(procs[p].earlier, dest)]]
    /\ UNCHANGED <<containers, images, snapshots, leases, nextID, dest>>
    /\ UNCHANGED depVars

\* images.go:239-244: the destination is created when missing.
ExtractMkdirDest(p) ==
    /\ InOp(p, "extract", "mkdirDest")
    /\ LET r == procs[p]
       IN  IF ~dest.exists
           THEN \E ok \in BOOLEAN :
                    LET l == Logged(r, Ev("MkdirAll", <<"destination">>, <<>>, ok))
                    IN  /\ procs' = [procs EXCEPT ![p] =
                                IF ok THEN At(l, "clean") ELSE Return(l, "mkdirDest")]
                        /\ dest' = IF ok THEN [dest EXCEPT !.exists = TRUE] ELSE dest
           ELSE /\ procs' = [procs EXCEPT ![p] = At(r, "clean")]
                /\ dest' = dest
    /\ UNCHANGED <<containers, images, snapshots, leases, nextID>>
    /\ UNCHANGED depVars

\* images.go:246-249: utils.CleanDirectory(destination); a failed clean
\* leaves some of the files behind.
ExtractClean(p) ==
    /\ InOp(p, "extract", "clean")
    /\ \E ok \in BOOLEAN : \E left \in SUBSET dest.files :
        LET r == procs[p]
            l == Logged(r, Ev("CleanDirectory", <<"destination">>, <<>>, ok))
        IN  /\ ok => dest.exists /\ left = {}
            /\ ~ok => (left # {} \/ dest.files = {})
            /\ dest' = [dest EXCEPT !.files = left]
            /\ procs' = [procs EXCEPT ![p] =
                    IF ok THEN At(l, "run") ELSE Return(l, "clean")]
    /\ UNCHANGED <<containers, images, snapshots, leases, nextID>>
    /\ UNCHANGED depVars

\* images.go:251-254: docker run -d --privileged --name tmpImageName imageName
ExtractRun(p) ==
    /\ InOp(p, "extract", "run")
    /\ \E ok \in BOOLEAN :
        LET r == procs[p]
            l == Logged(r, Ev("run", r.cname, extractImageName(r.name, r.tag), ok))
        IN  /\ runCommand("run", r.cname, extractImageName(r.name, r.tag), ok)
            /\ procs' = [procs EXCEPT ![p] =
                    IF ok THEN At(l, "squash") ELSE Return(l, "run")]
    /\ UNCHANGED <<snapshots, leases, nextID, dest>>
    /\ UNCHANGED depVars

\* images.go:256-260: mksquashfs root.x86_64 /rootfs.squash
ExtractSquash(p) ==
    ContainerStep(p, "extract", "squash", "cpRootfs", "exec", <<"mksquashfs">>)

\* docker cp tmpImageName:<from> destination/<file>
ExtractCopy(p, here, next, file) ==
    /\ InOp(p, "extract", here)
    /\ \E ok \in BOOLEAN :
        LET r == procs[p]
            l == Logged(r, Ev("cp", r.cname, <<file>>, ok))
        IN  /\ runCommand("cp", r.cname, <<file>>, ok)
            /\ ok => dest.exists
            /\ dest' = IF ok
                       THEN [dest EXCEPT !.files =
                                written(@, <<file>>, extractImageName(r.name, r.tag))]
                       ELSE dest
            /\ procs' = [procs EXCEPT ![p] =
                    IF ok THEN (IF next = "stop" THEN finish(l) ELSE At(l, next))
                    ELSE stepFailed(l, here)]
    /\ UNCHANGED <<snapshots, leases, nextID>>
    /\ UNCHANGED depVars

\* images.go:262-266
ExtractCpRootfs(p) == ExtractCopy(p, "cpRootfs", "cpKernel", "rootfs.squash")

\* images.go:268-272
ExtractCpKernel(p) == ExtractCopy(p, "cpKernel", "cpInitramfs", "vmlinuz-linux")

\* images.go:274-280: the last copy, then return destroyContainer(tmpImageName)
ExtractCpInitramfs(p) == ExtractCopy(p, "cpInitramfs", "stop", "initramfs-linux.img")

(***************************************************************************)
(* Session.ExtractImage, containerd (part_000:23-93)                       *)
(***************************************************************************)
CtdNames == {<<"a">>, <<"b">>}

IDPool == << <<"id0">>, <<"id1">>, <<"id2">>, <<"id3">> >>

\* utils.NewID(): an identifier that no earlier call returned.
NewID == IDPool[nextID + 1]

\* A defer statement: the call runs when the function returns, last first.
pushDefer(defers, call) == <<call>> \o defers

\* part_000:30: defer done()
deferDoneForgotten(defers) == defers
deferDone(defers) == pushDefer(defers, "done")

\* part_000:51: defer session.deleteSnapshot(ctx, snapshotKey)
deferDeleteSnapshotForgotten(defers) == defers
deferDeleteSnapshot(defers) == pushDefer(defers, "deleteSnapshot")

\* part_000:41: defer tempMountsWs.Destroy()
deferWorkspaceDestroy(defers) == pushDefer(defers, "Workspace.Destroy")

\* A return statement: the result is fixed, the deferred calls run.
unwind(r, err) == [r EXCEPT !.pc = "unwind", !.pending = err]

\* What the upper layer of the snapshot holds: the staging directory with
\* two regular files and a symbolic link, a sibling whose name starts with
\* the staging directory's, and a file beside them. Paths are relative to
\* the mount, in the order filepath.Walk lists them.
Entry(path, kind) == [path |-> path, kind |-> kind]
UpperLayer ==
    << Entry(<<"/", "extract">>, "dir"),
       Entry(<<"/", "extract", "/", "boot">>, "dir"),
       Entry(<<"/", "extract", "/", "boot", "/", "vmlinuz">>, "file"),
       Entry(<<"/", "extract", "/", "etc">>, "dir"),
       Entry(<<"/", "extract", "/", "etc", "/", "hostname">>, "file"),
       Entry(<<"/", "extract", "/", "link">>, "symlink"),
       Entry(<<"/", "extract", "2">>, "dir"),
       Entry(<<"/", "extract", "2", "/", "x">>, "file"),
       Entry(<<"/", "other">>, "file") >>

\* part_000:76: the directory mount.WithTempMount mounts the snapshot on,
\* one per mount.
tempMountRoot(key) == <<"/", "mnt-">> \o key

\* part_000:77: srcDir := path.Join(root, "extract")
srcDir(root) == root \o <<"/", "extract">>

\* part_000:78: filepath.Walk(srcDir, ...) visits srcDir and what lies in
\* it, directory by directory.
beneath(path, top) == path = top \/ HasPrefix(path, top \o <<"/">>)
WalkEntries(root) ==
    LET mounted == [i \in 1..Len(UpperLayer) |->
                        Entry(root \o UpperLayer[i].path, UpperLayer[i].kind)]
        visited(e) == beneath(e.path, srcDir(root))
    IN  SelectSeq(mounted, visited)

\* part_000:82: if !_f.IsDir() && strings.HasPrefix(_path, srcDir)
isCopied(e, src) == e.kind # "dir" /\ HasPrefix(e.path, src)

\* part_000:83: path.Join(destination, _path[len(srcDir):]), as a path
\* below the destination.
destinationPathWhole(_path, src) ==
    IF _path # <<>> /\ Head(_path) = "/" THEN Tail(_path) ELSE _path
destinationPath(_path, src) ==
    LET rel == SubSeq(_path, Len(src) + 1, Len(_path))
    IN  IF rel # <<>> /\ Head(rel) = "/" THEN Tail(rel) ELSE rel

\* part_000:78-86: what the walk function does with the first k entries.
RECURSIVE copied(_, _, _, _)
copied(files, k, root, content) ==
    IF k = 0 THEN files
    ELSE LET e == WalkEntries(root)[k]
             before == copied(files, k - 1, root, content)
         IN  IF isCopied(e, srcDir(root))
             THEN written(before, destinationPath(e.path, srcDir(root)), content)
             ELSE before

\* The call.
CtdExtractImage(p, name) ==
    /\ InOp(p, "idle", "idle")
    /\ procs' = [procs EXCEPT ![p] =
            [@ EXCEPT !.op = "ctdExtract", !.pc = "WithLease", !.name = name]]
    /\ UNCHANGED <<containers, images, snapshots, leases, nextID, dest>>
    /\ UNCHANGED depVars

\* The caller runs the extraction that succeeded once more, with the same
\* arguments; what the call before left in the destination is kept aside.
CtdExtractImageAgain(p) ==
    /\ InOp(p, "ctdExtract", "returned")
    /\ procs[p].ret.err = "nil"
    /\ Len(procs[p].earlier) + 1 < MaxCalls
    /\ procs' = [procs EXCEPT ![p] =
            [IdleProc EXCEPT !.op = "ctdExtract", !.pc = "WithLease",
                             !.name = procs[p].name,
                             !.earlier = Append(procs[p].earlier, dest)]]
    /\ UNCHANGED <<containers, images, snapshots, leases, nextID, dest>>
    /\ UNCHANGED depVars

\* part_000:26-30: session.client.WithLease(ctx)
CtdWithLease(p) ==
    /\ InOp(p, "ctdExtract", "WithLease")
    /\ \E ok \in BOOLEAN :
        LET r == procs[p]
            l == Logged(r, Ev("WithLease", <<>>, <<>>, ok))
        IN  /\ procs' = [procs EXCEPT ![p] =
                    IF ok THEN [At(l, "GetImage") EXCEPT !.defers = deferDone(@)]
                    ELSE Return(l, "WithLease")]
            /\ leases' = IF ok THEN leases \cup {p} ELSE leases
    /\ UNCHANGED <<containers, images, snapshots, nextID, dest>>
    /\ UNCHANGED depVars

\* A call of the backend that changes nothing this model tracks: on an
\* error the function returns it.
CtdCall(p, here, next, call) ==
    /\ InOp(p, "ctdExtract", here)
    /\ \E ok \in BOOLEAN :
        LET r == procs[p]
            l == Logged(r, Ev(call, r.cname, <<>>, ok))
        IN  procs' = [procs EXCEPT ![p] = IF ok THEN At(l, next) ELSE unwind(l, here)]
    /\ UNCHANGED <<containers, images, snapshots, leases, nextID, dest>>
    /\ UNCHANGED depVars

\* part_000:32-35: session.client.GetImage
CtdGetImage(p) == CtdCall(p, "GetImage", "NewWorkspace", "GetImage")

\* part_000:37-41: workspace.NewWorkspace("")
CtdNewWorkspace(p) ==
    /\ InOp(p, "ctdExtract", "NewWorkspace")
    /\ \E ok \in BOOLEAN :
        LET r == procs[p]
            l == Logged(r, Ev("NewWorkspace", <<>>, <<>>, ok))
        IN  procs' = [procs EXCEPT ![p] =
                IF ok THEN [At(l, "createTempMounts") EXCEPT !.defers = deferWorkspaceDestroy(@)]
                ELSE unwind(l, "NewWorkspace")]
    /\ UNCHANGED <<containers, images, snapshots, leases, nextID, dest>>
    /\ UNCHANGED depVars

\* part_000:43: createTempMounts; its error is overwritten at line 47
\* before anything reads it.
CtdCreateTempMounts(p) ==
    /\ InOp(p, "ctdExtract", "createTempMounts")
    /\ \E ok \in BOOLEAN :
        LET r == procs[p]
            l == Logged(r, Ev("createTempMounts", <<>>, <<>>, ok))
        IN  procs' = [procs EXCEPT ![p] = At(l, "createSnapshot")]
    /\ UNCHANGED <<containers, images, snapshots, leases, nextID, dest>>
    /\ UNCHANGED depVars

\* part_000:46-51: snapshotKey := utils.NewID(); session.createSnapshot
CtdCreateSnapshot(p) ==
    /\ InOp(p, "ctdExtract", "createSnapshot")
    /\ \E ok \in BOOLEAN :
        LET r == [procs[p] EXCEPT !.cname = NewID]
            l == Logged(r, Ev("createSnapshot", r.cname, r.name, ok))
        IN  /\ ok => r.cname \notin snapshots
            /\ snapshots' = IF ok THEN snapshots \cup {r.cname} ELSE snapshots
            /\ procs' = [procs EXCEPT ![p] =
                    IF ok THEN [At(l, "RunContainer") EXCEPT !.defers = deferDeleteSnapshot(@)]
                    ELSE unwind(l, "createSnapshot")]
    /\ nextID' = nextID + 1
    /\ UNCHANGED <<containers, images, leases, dest>>
    /\ UNCHANGED depVars

\* part_000:53-69: session.RunContainer on the snapshot
CtdRunContainer(p) ==
    /\ procs[p].cname \in snapshots
    /\ CtdCall(p, "RunContainer", "Mounts", "RunContainer")

\* part_000:71-74: session.snapshotter.Mounts
CtdMounts(p) ==
    /\ procs[p].cname \in snapshots
    /\ CtdCall(p, "Mounts", "WithTempMount", "Mounts")

\* part_000:76-92: mount.WithTempMount and the walk below <root>/extract:
\* the walk ends at the first entry that fails, the entries before it done;
\* the mount itself may fail before the walk, the unmount after it.
CtdWithTempMount(p) ==
    /\ InOp(p, "ctdExtract", "WithTempMount")
    /\ procs[p].cname \in snapshots
    /\ \E k \in 0..Len(WalkEntries(tempMountRoot(procs[p].cname))) :
       \E ok \in BOOLEAN :
        LET r == procs[p]
            root == tempMountRoot(r.cname)
            l == Logged(r, Ev("WithTempMount", r.cname, <<>>, ok))
            files == copied(dest.files, k, root, r.name)
        IN  /\ ok => k = Len(WalkEntries(root))
            /\ dest' = [exists |-> dest.exists \/ files # dest.files, files |-> files]
            /\ procs' = [procs EXCEPT ![p] =
                    IF ok THEN unwind(l, "nil") ELSE unwind(l, "WithTempMount")]
    /\ UNCHANGED <<containers, images, snapshots, leases, nextID>>
    /\ UNCHANGED depVars

\* The deferred session.deleteSnapshot(ctx, snapshotKey); what it returns
\* is dropped.
CtdDeleteSnapshot(p) ==
    /\ InOp(p, "ctdExtract", "unwind")
    /\ procs[p].defers # <<>> /\ Head(procs[p].defers) = "deleteSnapshot"
    /\ \E ok \in BOOLEAN :
        LET r == procs[p]
            l == Logged(r, Ev("deleteSnapshot", r.cname, <<>>, ok))
        IN  /\ snapshots' = IF ok THEN snapshots \ {r.cname} ELSE snapshots
            /\ procs' = [procs EXCEPT ![p] = [l EXCEPT !.defers = Tail(@)]]
    /\ UNCHANGED <<containers, images, leases, nextID, dest>>
    /\ UNCHANGED depVars

\* The deferred tempMountsWs.Destroy()
CtdWorkspaceDestroy(p) ==
    /\ InOp(p, "ctdExtract", "unwind")
    /\ procs[p].defers # <<>> /\ Head(procs[p].defers) = "Workspace.Destroy"
    /\ procs' = [procs EXCEPT ![p] =
            [Logged(@, Ev("Workspace.Destroy", <<>>, <<>>, TRUE)) EXCEPT !.defers = Tail(@)]]
    /\ UNCHANGED <<containers, images, snapshots, leases, nextID, dest>>
    /\ UNCHANGED depVars

\* The deferred done(): the lease is released.
CtdDone(p) ==
    /\ InOp(p, "ctdExtract", "unwind")
    /\ procs[p].defers # <<>> /\ Head(procs[p].defers) = "done"
    /\ procs' = [procs EXCEPT ![p] =
            [Logged(@, Ev("done", <<>>, <<>>, TRUE)) EXCEPT !.defers = Tail(@)]]
    /\ leases' = leases \ {p}
    /\ UNCHANGED <<containers, images, snapshots, nextID, dest>>
    /\ UNCHANGED depVars

\* Every deferred call has run: the caller gets the result.
CtdReturn(p) ==
    /\ InOp(p, "ctdExtract", "unwind")
    /\ procs[p].defers = <<>>
    /\ procs' = [procs EXCEPT ![p] = Return(@, @.pending)]
    /\ UNCHANGED <<containers, images, snapshots, leases, nextID, dest>>
    /\ UNCHANGED depVars

(***************************************************************************)
(* Specifications                                                          *)
(***************************************************************************)
NoContainers == [n \in {} |-> "exited"]
BaseImages == {<<"o", "s">>}

InitOps(P) ==
    /\ dir = EmptyMap
    /\ bpc = "off"
    /\ toLoad = {}
    /\ imageDefinitions = EmptyMap
    /\ toVerify = {}
    /\ walks = [n \in {} |-> Outcome(NoError, 0)]
    /\ bret = NotReturned
    /\ procs = [p \in P |-> IdleProc]
    /\ containers = NoContainers
    /\ images \in {BaseImages, BaseImages \cup {<<"a">>}}
    /\ snapshots = {}
    /\ leases = {}
    /\ nextID = 0
    /\ dest \in DestStates

Steps ==
    \/ \E p \in DOMAIN procs : BuildPackageCache(p)
    \/ \E p \in DOMAIN procs : BuildRun(p)
    \/ \E p \in DOMAIN procs : BuildMkdirImages(p)
    \/ \E p \in DOMAIN procs : BuildMountImages(p)
    \/ \E p \in DOMAIN procs : BuildMkdirPackages(p)
    \/ \E p \in DOMAIN procs : BuildMountPackages(p)
    \/ \E p \in DOMAIN procs : BuildScript(p)
    \/ \E p \in DOMAIN procs : BuildRmImages(p)
    \/ \E p \in DOMAIN procs : BuildRmPackages(p)
    \/ \E p \in DOMAIN procs : BuildCommit(p)
    \/ \E p \in DOMAIN procs : BuildTag(p)
    \/ \E p \in DOMAIN procs : BuildFinish(p)
    \/ \E p \in DOMAIN procs : DestroyStop(p)
    \/ \E p \in DOMAIN procs : DestroyRm(p)
    \/ \E p \in DOMAIN procs : ExtractMkdirDest(p)
    \/ \E p \in DOMAIN procs : ExtractClean(p)
    \/ \E p \in DOMAIN procs : ExtractRun(p)
    \/ \E p \in DOMAIN procs : ExtractSquash(p)
    \/ \E p \in DOMAIN procs : ExtractCpRootfs(p)
    \/ \E p \in DOMAIN procs : ExtractCpKernel(p)
    \/ \E p \in DOMAIN procs : ExtractCpInitramfs(p)
    \/ \E p \in DOMAIN procs : CtdWithLease(p)
    \/ \E p \in DOMAIN procs : CtdGetImage(p)
    \/ \E p \in DOMAIN procs : CtdNewWorkspace(p)
    \/ \E p \in DOMAIN procs : CtdCreateTempMounts(p)
    \/ \E p \in DOMAIN procs : CtdCreateSnapshot(p)
    \/ \E p \in DOMAIN procs : CtdRunContainer(p)
    \/ \E p \in DOMAIN procs : CtdMounts(p)
    \/ \E p \in DOMAIN procs : CtdWithTempMount(p)
    \/ \E p \in DOMAIN procs : CtdDeleteSnapshot(p)
    \/ \E p \in DOMAIN procs : CtdWorkspaceDestroy(p)
    \/ \E p \in DOMAIN procs : CtdDone(p)
    \/ \E p \in DOMAIN procs : CtdReturn(p)

\* One operation, with every argument.
Init == InitOps({"p1"})

Next ==
    \/ \E p \in DOMAIN procs : \E in \in BuildInputs : BuildImageLayer(p, in)
    \/ \E p \in DOMAIN procs : \E in \in ExtractInputs : ExtractImage(p, in)
    \/ \E p \in DOMAIN procs : \E name \in CtdNames : CtdExtractImage(p, name)
    \/ \E p \in DOMAIN procs : ExtractImageAgain(p)
    \/ \E p \in DOMAIN procs : CtdExtractImageAgain(p)
    \/ Steps

Spec == Init /\ [][Next]_vars

\* Two operations at the same time, as two invocations of the program run
\* them against one daemon.
ConcBuildInputs ==
    {in \in BuildInputs : /\ in.name = <<"a">> /\ in.inherits = ExternalRef /\ in.prefix = <<>>
                          /\ \/ in.tags = <<>> /\ in.cache = "none"
                             \/ Len(in.tags) = 1 /\ in.cache = "exists"}
ConcExtractInputs == {in \in ExtractInputs : in.tag = <<>>}
ConcCtdNames == {<<"a">>}

InitConc == InitOps({"p1", "p2"}) /\ images = BaseImages /\ dest = [exists |-> TRUE, files |-> {}]

NextConc ==
    \/ \E p \in DOMAIN procs : \E in \in ConcBuildInputs : BuildImageLayer(p, in)
    \/ \E p \in DOMAIN procs : \E in \in ConcExtractInputs : ExtractImage(p, in)
    \/ \E p \in DOMAIN procs : \E name \in ConcCtdNames : CtdExtractImage(p, name)
    \/ Steps

SpecConc == InitConc /\ [][NextConc]_vars

(***************************************************************************)
(* The inheritance relation, stated on the definition map alone            *)
(***************************************************************************)
\* The k-th ancestor of `n`: the name reached by following Inherits k times.
\* A name that is no key of the map has no parent, and the chain stays on it.
RECURSIVE Ancestor(_, _, _)
Ancestor(defs, n, k) ==
    IF k = 0 THEN n
    ELSE LET a == Ancestor(defs, n, k - 1)
         IN  IF a \in DOMAIN defs THEN defs[a].Inherits ELSE a

Hops(defs) == 0..Cardinality(DOMAIN defs)

OnCycle(defs, n) ==
    /\ n \in DOMAIN defs
    /\ \E k \in Hops(defs) \ {0} : Ancestor(defs, n, k) = n

ReachesCycle(defs, n) == \E j \in Hops(defs) : OnCycle(defs, Ancestor(defs, n, j))

Resolves(defs, n) ==
    \E k \in Hops(defs) \ {0} : HasPrefix(Ancestor(defs, n, k), ExternalMarker)

Dangling(defs, x) ==
    /\ x \in DOMAIN defs
    /\ ~HasPrefix(defs[x].Inherits, ExternalMarker)
    /\ defs[x].Inherits \notin DOMAIN defs

\* The definition map of a directory all of whose images load.
Loadable(d) == \A n \in DOMAIN d : BuildDefinition(n, d).err = NoError
DefsOf(d) == [n \in DOMAIN d |-> BuildDefinition(n, d).def]

(***************************************************************************)
(* C3: for every entry image whose Inherits chain reaches a cycle (A->B->A *)
(* entered at A or at B, a self-loop, a cycle that does not contain the    *)
(* entry), the walk of verifyDependencies fails with the cyclical-         *)
(* dependency error, and the image the error names lies on the cycle.      *)
(***************************************************************************)
C3_CycleDetected ==
    /\ \A n \in DOMAIN imageDefinitions :
        ReachesCycle(imageDefinitions, n) =>
            LET r == verifyDependencies(imageDefinitions[n], imageDefinitions)
            IN  /\ r.err.kind = "cyclical"
                /\ OnCycle(imageDefinitions, r.err.image)
    /\ \A n \in DOMAIN walks :
        ReachesCycle(imageDefinitions, n) => walks[n].err.kind = "cyclical"

\* A walk entered outside the cycle it reaches has ended with the error.
C3_Witness ==
    \E n \in DOMAIN walks :
        /\ ReachesCycle(imageDefinitions, n)
        /\ ~OnCycle(imageDefinitions, n)
        /\ walks[n].err.kind = "cyclical"
        /\ bret.returned /\ bret.err.kind = "cyclical"

(***************************************************************************)
(* C4: when every image of the directory loads and its Inherits chain ends *)
(* at an "external:" reference through parents of the set, every walk      *)
(* succeeds and BuildAllDefinitions, once the directory is listed, returns  *)
(* the full definition map.                                                 *)
(***************************************************************************)
C4_ValidSetAccepted ==
    /\ (\A n \in DOMAIN imageDefinitions : Resolves(imageDefinitions, n)) =>
            \A n \in DOMAIN imageDefinitions :
                verifyDependencies(imageDefinitions[n], imageDefinitions).err = NoError
    /\ ( /\ bret.returned
         /\ bret.err.kind \notin {"noImagesDir", "listFailed"}
         /\ Loadable(dir)
         /\ \A n \in DOMAIN dir : Resolves(DefsOf(dir), n) ) =>
            /\ bret = Returned(FALSE, DefsOf(dir), NoError)
            /\ \A n \in DOMAIN dir : n \in DOMAIN walks /\ walks[n].err = NoError

\* A set with a chain of length two has been accepted.
C4_Witness ==
    /\ bret.returned /\ bret.err = NoError /\ ~bret.isNil
    /\ DOMAIN bret.defs = ImageNames
    /\ \E n \in DOMAIN bret.defs :
        /\ bret.defs[n].Inherits \in DOMAIN bret.defs
        /\ bret.defs[bret.defs[n].Inherits].Inherits \in DOMAIN bret.defs

(***************************************************************************)
(* C5: when the chain of an entry image reaches an image x whose Inherits  *)
(* is neither a key of the map nor external (x the entry itself, or an     *)
(* ancestor of it), the walk fails with the unresolved-parent error naming *)
(* x and exactly that missing parent.                                      *)
(***************************************************************************)
C5_UnresolvedParent ==
    \A n \in DOMAIN imageDefinitions : \A j \in Hops(imageDefinitions) :
        LET x == Ancestor(imageDefinitions, n, j)
        IN  Dangling(imageDefinitions, x) =>
                LET e == Error("unresolved", x, imageDefinitions[x].Inherits)
                IN  /\ verifyDependencies(imageDefinitions[n], imageDefinitions).err = e
                    /\ n \in DOMAIN walks => walks[n].err = e

\* A walk has reached the missing parent through another image.
C5_Witness ==
    \E n \in DOMAIN walks :
        /\ ~Dangling(imageDefinitions, n)
        /\ \E j \in Hops(imageDefinitions) : Dangling(imageDefinitions, Ancestor(imageDefinitions, n, j))
        /\ walks[n].err.kind = "unresolved"
        /\ walks[n].err.image # n
        /\ walks[n].err.parent = MissingName
        /\ bret.returned /\ bret.err = walks[n].err

(***************************************************************************)
(* C6: BuildAllDefinitions returns a map only after every image of the     *)
(* directory was loaded and its walk succeeded; when an image fails to     *)
(* load or to validate it returns an error and the nil map.                *)
(***************************************************************************)
C6_AllOrNothing ==
    bret.returned =>
        /\ bret.err = NoError =>
            /\ ~bret.isNil
            /\ Loadable(dir)
            /\ bret.defs = DefsOf(dir)
            /\ toLoad = {} /\ toVerify = {}
            /\ DOMAIN walks = DOMAIN dir
            /\ \A n \in DOMAIN dir :
                /\ walks[n].err = NoError
                /\ Resolves(bret.defs, n)
        /\ bret.err # NoError => bret.isNil /\ bret.defs = EmptyMap
        /\ ( \/ ~Loadable(dir)
             \/ \E n \in DOMAIN dir : ~Resolves(DefsOf(dir), n) ) => bret.err # NoError

\* Some images were validated, a later one failed, and no map came back.
C6_Witness ==
    /\ bret.returned /\ bret.err # NoError /\ bret.isNil
    /\ \E n \in DOMAIN walks : walks[n].err = NoError
    /\ \E n \in DOMAIN walks : walks[n].err # NoError

(***************************************************************************)
(* What an operation's log says                                            *)
(***************************************************************************)
\* The positions of the log where `cmd` was issued.
Idx(log, cmd) == {i \in DOMAIN log : log[i].cmd = cmd}
Failed(log, cmds) == {i \in DOMAIN log : log[i].cmd \in cmds /\ ~log[i].ok}

\* The container of a docker operation was started.
Started(log) == \E i \in Idx(log, "run") : log[i].ok

\* The calls that only release what the operation acquired.
CleanupCalls == {"destroyContainer", "stop", "rm", "deleteSnapshot", "Workspace.Destroy", "done"}

\* The calls whose error the operation checks and returns
\* (createTempMounts, part_000:43, is the one call whose error it drops).
CheckedCalls ==
    {"MkdirAll", "CleanDirectory", "run", "exec", "commit", "tag", "cp",
     "WithLease", "GetImage", "NewWorkspace", "createSnapshot", "RunContainer",
     "Mounts", "WithTempMount"}

DockerOps == {"build", "extract"}

(***************************************************************************)
(* C1: in BuildImageLayer and the docker ExtractImage, once the container  *)
(* was started, destroyContainer is called exactly once, for that          *)
(* container, before the operation returns: after a failure of any later   *)
(* command and on the successful path; it is never called twice.           *)
(***************************************************************************)
C1_DestroyOnce ==
    \A p \in DOMAIN procs :
        procs[p].op \in DockerOps =>
            LET log == procs[p].log
                destroys == Idx(log, "destroyContainer")
            IN  /\ Cardinality(destroys) <= 1
                /\ \A d \in destroys :
                    /\ log[d].a = procs[p].cname
                    /\ \E i \in Idx(log, "run") : log[i].ok /\ i < d /\ log[i].a = log[d].a
                /\ (procs[p].ret.returned /\ Started(log)) => Cardinality(destroys) = 1

\* A build whose commit failed has returned, the container destroyed once.
C1_Witness ==
    \E p \in DOMAIN procs :
        /\ procs[p].op = "build" /\ procs[p].ret.returned
        /\ Failed(procs[p].log, {"commit"}) # {}
        /\ Cardinality(Idx(procs[p].log, "destroyContainer")) = 1

(***************************************************************************)
(* C2 (as claimed): whenever BuildImageLayer or ExtractImage returns after *)
(* its container was started, both docker stop and docker rm have been     *)
(* issued for that container, whatever docker stop answered.               *)
(***************************************************************************)
C2_StopAndRemoveIssued ==
    \A p \in DOMAIN procs :
        (procs[p].op \in DockerOps /\ procs[p].ret.returned /\ Started(procs[p].log)) =>
            LET log == procs[p].log
            IN  /\ \E i \in Idx(log, "stop") : log[i].a = procs[p].cname
                /\ \E i \in Idx(log, "rm") : log[i].a = procs[p].cname

SnapshotUses == {"createSnapshot", "RunContainer", "Mounts", "WithTempMount", "deleteSnapshot"}

C8_LeaseSpansSnapshot ==
    \A p \in DOMAIN procs :
        procs[p].op = "ctdExtract" =>
            LET log == procs[p].log
                acquired == {i \in Idx(log, "WithLease") : log[i].ok}
                released == Idx(log, "done")
            IN  /\ \A u \in DOMAIN log :
                    log[u].cmd \in SnapshotUses =>
                        /\ \E a \in acquired : a < u
                        /\ \A d \in released : u < d
                        /\ u = Len(log) /\ ~procs[p].ret.returned /\ released = {} => p \in leases
                /\ Cardinality(acquired) <= 1 /\ Cardinality(released) <= 1
                /\ released # {} => acquired # {} /\ p \notin leases
                /\ (acquired # {} /\ released = {}) => p \in leases
                /\ (procs[p].ret.returned /\ acquired # {}) => Cardinality(released) = 1

\* An extraction that failed at Mounts has returned: the snapshot was
\* deleted under the lease, the lease released after it.
C8_Witness ==
    \E p \in DOMAIN procs :
        /\ procs[p].op = "ctdExtract" /\ procs[p].ret.returned
        /\ Failed(procs[p].log, {"Mounts"}) # {}
        /\ Idx(procs[p].log, "deleteSnapshot") # {}
        /\ Cardinality(Idx(procs[p].log, "done")) = 1
        /\ p \notin leases

(***************************************************************************)
(* C9: in the containerd ExtractImage, when createSnapshot succeeded,      *)
(* deleteSnapshot is invoked exactly once, for the same key, after the     *)
(* steps that use the snapshot, on the successful and on every failing     *)
(* path; what ExtractImage returns does not depend on whether              *)
(* deleteSnapshot failed.                                                  *)
(***************************************************************************)
C9_SnapshotDeletedOnce ==
    \A p \in DOMAIN procs :
        procs[p].op = "ctdExtract" =>
            LET log == procs[p].log
                created == {i \in Idx(log, "createSnapshot") : log[i].ok}
                deleted == Idx(log, "deleteSnapshot")
                primary == Failed(log, CheckedCalls)
            IN  /\ Cardinality(deleted) <= 1
                /\ \A d \in deleted :
                    /\ \E c \in created : c < d /\ log[c].a = log[d].a
                    /\ \A u \in DOMAIN log :
                        log[u].cmd \in {"RunContainer", "Mounts", "WithTempMount"} => u < d
                /\ procs[p].ret.returned =>
                    /\ created # {} => Cardinality(deleted) = 1
                    /\ primary = {} => procs[p].ret.err = "nil"
                    /\ primary # {} => \E i \in primary : procs[p].ret.err = log[i].step

\* A successful extraction whose deleteSnapshot failed has returned nil.
C9_Witness ==
    \E p \in DOMAIN procs :
        /\ procs[p].op = "ctdExtract" /\ procs[p].ret.returned
        /\ Failed(procs[p].log, {"deleteSnapshot"}) # {}
        /\ \E i \in Idx(procs[p].log, "WithTempMount") : procs[p].log[i].ok
        /\ procs[p].ret.err = "nil"

(***************************************************************************)
(* C10 (as claimed): two operations running at the same time never use the *)
(* same snapshot key or container name: while one operation holds the      *)
(* container or snapshot it created, the key another running operation is  *)
(* about to create its own under is a different one, so that its start     *)
(* cannot fail on the first one's resource.                                *)
(***************************************************************************)
\* The operation was called and has not returned.
InFlight(p) == procs[p].op # "idle" /\ ~procs[p].ret.returned

\* The operation created the container or snapshot named by its key, and it
\* is still there.
Holds(p) ==
    /\ \E i \in DOMAIN procs[p].log :
        /\ procs[p].log[i].cmd \in {"run", "createSnapshot"}
        /\ procs[p].log[i].ok
        /\ procs[p].log[i].a = procs[p].cname
    /\ procs[p].cname \in DOMAIN containers \cup snapshots

\* The operation's next statement creates its container or snapshot.
AboutToCreate(q) == procs[q].pc \in {"run", "createSnapshot"}
KeyToCreate(q) == IF procs[q].op = "ctdExtract" THEN NewID ELSE procs[q].cname

C10_DistinctKeys ==
    \A p \in DOMAIN procs : \A q \in DOMAIN procs \ {p} :
        (InFlight(p) /\ Holds(p) /\ InFlight(q) /\ AboutToCreate(q)) =>
            procs[p].cname # KeyToCreate(q)

(***************************************************************************)
(* Extraction: what it leaves in the destination                           *)
(***************************************************************************)
Extracts == {"extract", "ctdExtract"}
Succeeded(p) == procs[p].pc = "returned" /\ procs[p].ret.err = "nil"

\* What an extraction writes into a file: the image it extracted.
ContentOf(p) ==
    IF procs[p].op = "extract" THEN extractImageName(procs[p].name, procs[p].tag)
    ELSE procs[p].name

\* The paths in the destination that hold what p extracted.
PathsFrom(p) == {f.path : f \in {g \in dest.files : g.content = ContentOf(p)}}

\* C11: after a successful extraction the destination exists and holds the
\* files of that extraction only, none of the files it held before the call.
C11_DestinationReplaced ==
    \A p \in DOMAIN procs :
        (procs[p].op \in Extracts /\ Succeeded(p)) =>
            /\ dest.exists
            /\ \A f \in dest.files : f.content = ContentOf(p)

\* C12: a second successful extraction of the same image in succession
\* leaves the destination, which held other files at first, with the paths
\* and the contents the first one left.
C12_ExtractTwiceSame ==
    \A p \in DOMAIN procs :
        (procs[p].op \in Extracts /\ Succeeded(p) /\ procs[p].earlier # <<>>) =>
            dest = procs[p].earlier[Len(procs[p].earlier)]

\* The second containerd extraction has succeeded, and a file the
\* destination held before the first one is still there.
C12_Witness ==
    \E p \in DOMAIN procs :
        /\ procs[p].op = "ctdExtract" /\ Succeeded(p)
        /\ procs[p].earlier # <<>>
        /\ procs[p].earlier[1].files # {}
        /\ File(<<"old">>, <<"old">>) \in dest.files

\* The regular files beneath the staging path of the upper layer, each at
\* its path relative to the staging path.
Staging == <<"/", "extract">>
StagedRegularFiles ==
    {SubSeq(UpperLayer[i].path, Len(Staging) + 2, Len(UpperLayer[i].path)) :
        i \in {j \in 1..Len(UpperLayer) :
                /\ UpperLayer[j].kind = "file"
                /\ HasPrefix(UpperLayer[j].path, Staging \o <<"/">>)}}

\* C13: the containerd extraction copies the regular files beneath the
\* staging path and nothing else: no directory, no entry that is neither a
\* directory nor a regular file, nothing outside the staging path; after a
\* successful extraction all of them are copied.
C13_OnlyStagedRegularFiles ==
    \A p \in DOMAIN procs :
        procs[p].op = "ctdExtract" =>
            /\ PathsFrom(p) \subseteq StagedRegularFiles
            /\ Succeeded(p) => PathsFrom(p) = StagedRegularFiles

\* C14: in both extractions, once a step other than a cleanup has failed,
\* no further step other than a cleanup is executed, and the extraction
\* returns an error.
C14_FailureAborts ==
    \A p \in DOMAIN procs :
        procs[p].op \in Extracts =>
            \A i \in DOMAIN procs[p].log :
                (procs[p].log[i].cmd \notin CleanupCalls /\ ~procs[p].log[i].ok) =>
                    /\ \A j \in DOMAIN procs[p].log :
                            j > i => procs[p].log[j].cmd \in CleanupCalls
                    /\ procs[p].pc = "returned" => procs[p].ret.err # "nil"

(***************************************************************************)
(* BuildImageLayer: parent, commit and tags                                *)
(***************************************************************************)
\* The tag commands a build issued, in the order it issued them.
TagEvents(p) == SelectSeq(procs[p].log, LAMBDA e : e.cmd = "tag")
CommitDone(p) == \E i \in Idx(procs[p].log, "commit") : procs[p].log[i].ok

\* C15: a build issues tag commands only after its commit succeeded, one
\* per tag in the order given; the tag command that fails is the last one
\* issued and its error is what the build returns; the committed image and
\* the tags applied before stay in the store.
C15_TagsInOrderNoRollback ==
    \A p \in DOMAIN procs :
        procs[p].op = "build" =>
            LET r == procs[p]
                T == TagEvents(p)
            IN  /\ T # <<>> => CommitDone(p)
                /\ \A i \in Idx(r.log, "tag") : \A c \in Idx(r.log, "commit") : c < i
                /\ Len(T) <= Len(r.tags)
                /\ \A k \in DOMAIN T :
                        /\ T[k].b = r.prefix \o r.name \o <<":">> \o r.tags[k]
                        /\ ~T[k].ok =>
                            /\ k = Len(T)
                            /\ r.pc = "returned" => r.ret.err = "tag"
                        /\ T[k].ok => T[k].b \in images
                /\ CommitDone(p) => (r.prefix \o r.name) \in images

\* The second of two tags failed: the build has returned that error, the
\* commit and the first tag are in the store.
C15_Witness ==
    \E p \in DOMAIN procs :
        /\ procs[p].op = "build" /\ procs[p].pc = "returned"
        /\ procs[p].ret.err = "tag"
        /\ Len(procs[p].tags) = 2 /\ Len(TagEvents(p)) = 2
        /\ TagEvents(p)[1].ok /\ ~TagEvents(p)[2].ok
        /\ TagEvents(p)[1].b \in images
        /\ (procs[p].prefix \o procs[p].name) \in images

\* C16: the image every tag command of a build names as its source is the
\* image the commit of that build wrote, whatever the build prefix.
C16_TagSourceIsCommitted ==
    \A p \in DOMAIN procs :
        procs[p].op = "build" =>
            \A i \in Idx(procs[p].log, "tag") : \A c \in Idx(procs[p].log, "commit") :
                procs[p].log[i].a = procs[p].log[c].b

\* C17: the build container is started from the reference behind the
\* "external:" marker, without the build prefix, when Inherits carries the
\* marker, and from the build prefix followed by Inherits otherwise; that
\* container is what the build commits, as the build prefix followed by the
\* name of the image.
C17_ParentAndCommitReference ==
    \A p \in DOMAIN procs :
        procs[p].op = "build" =>
            LET r == procs[p]
            IN  /\ \A i \in Idx(r.log, "run") :
                    /\ r.log[i].a = <<"darch-building-">> \o r.name
                    /\ IF HasPrefix(r.inherits, ExternalMarker)
                       THEN ExternalMarker \o r.log[i].b = r.inherits
                       ELSE r.log[i].b = r.prefix \o r.inherits
                /\ \A c \in Idx(r.log, "commit") :
                    /\ r.log[c].a = <<"darch-building-">> \o r.name
                    /\ r.log[c].b = r.prefix \o r.name

\* A build with a build prefix and an external parent has committed.
C17_Witness ==
    \E p \in DOMAIN procs :
        /\ procs[p].op = "build" /\ CommitDone(p)
        /\ procs[p].prefix # <<>>
        /\ HasPrefix(procs[p].inherits, ExternalMarker)
        /\ \E i \in Idx(procs[p].log, "run") : procs[p].log[i].b = <<"o", "s">>

\* The steps of a build before its commit, in the order of the code; the
\* two of the package cache are taken only with a package cache.
StepsBeforeCommit ==
    <<"run", "mkdirImages", "mountImages", "mkdirPackages", "mountPackages",
      "script", "rmImages", "rmPackages">>
CacheSteps == {"mkdirPackages", "mountPackages"}
StepsOf(log, n) == [j \in 1..n |-> log[j].step]

\* Every commit and every tag command of a build comes after all the steps
\* before the commit, each of them taken once, in order, with success.
CommitAfterAllSteps(p) ==
    LET log == SelectSeq(procs[p].log, LAMBDA e : e.cmd # "MkdirAll")
    IN  \A c \in DOMAIN log :
            log[c].cmd \in {"commit", "tag"} =>
                LET k == CHOOSE i \in DOMAIN log : log[i].cmd = "commit" /\
                            \A j \in DOMAIN log : log[j].cmd = "commit" => i <= j
                    taken == StepsOf(log, k - 1)
                IN  /\ \E i \in DOMAIN log : log[i].cmd = "commit" /\ i <= c
                    /\ \A j \in 1..(k - 1) : log[j].ok
                    /\ taken \in {StepsBeforeCommit,
                                  SelectSeq(StepsBeforeCommit, LAMBDA x : x \notin CacheSteps)}

\* The store changes only by a commit or a tag of a build none of whose
\* commands has failed.
StoreChangedByCompleteBuild ==
    images' # images =>
        \E p \in DOMAIN procs :
            /\ procs[p].op = "build" /\ procs[p].pc \in {"commit", "tag"}
            /\ \A i \in DOMAIN procs[p].log : procs[p].log[i].ok

\* C18: a build issues its commit, and its tags, only after the start of
\* the container, the mount setup, the build script and the removal steps
\* have all succeeded, in that order; a build in which one of them failed
\* issues no commit and no tag and adds nothing to the store.
C18_CommitOnlyAfterSuccess ==
    /\ [](\A p \in DOMAIN procs : procs[p].op = "build" => CommitAfterAllSteps(p))
    /\ [][StoreChangedByCompleteBuild]_vars

\* The build script failed: the build has returned its error without a
\* commit or a tag, the committed name is not in the store.
C18_Witness ==
    \E p \in DOMAIN procs :
        /\ procs[p].op = "build" /\ procs[p].pc = "returned"
        /\ procs[p].ret.err = "script"
        /\ \E i \in DOMAIN procs[p].log :
                procs[p].log[i].step = "script" /\ ~procs[p].log[i].ok
        /\ Idx(procs[p].log, "commit") = {} /\ Idx(procs[p].log, "tag") = {}
        /\ (procs[p].prefix \o procs[p].name) \notin images

\* destroyContainer of the build has stopped and removed the container.
Destroyed(p) ==
    /\ \E i \in Idx(procs[p].log, "stop") : procs[p].log[i].ok
    /\ \E i \in Idx(procs[p].log, "rm") : procs[p].log[i].ok
    /\ procs[p].cname \notin DOMAIN containers
AllTagsApplied(p) ==
    /\ Len(TagEvents(p)) = Len(procs[p].tags)
    /\ \A k \in DOMAIN TagEvents(p) :
            TagEvents(p)[k].ok /\ TagEvents(p)[k].b \in images

\* C20: a build that returns success has committed the image, applied
\* every tag, stopped and removed its container; when the last
\* destroyContainer fails after the commit, the build returns an error and
\* the committed image is still in the store.
C20_SuccessMeansComplete ==
    \A p \in DOMAIN procs :
        (procs[p].op = "build" /\ procs[p].pc = "returned") =>
            /\ procs[p].ret.err = "nil" =>
                /\ CommitDone(p) /\ (procs[p].prefix \o procs[p].name) \in images
                /\ AllTagsApplied(p)
                /\ Destroyed(p)
            /\ (CommitDone(p) /\ AllTagsApplied(p) /\ ~Destroyed(p)) =>
                /\ procs[p].ret.err \in {"stop", "rm"}
                /\ (procs[p].prefix \o procs[p].name) \in images

\* After the commit and the tag, docker rm failed: the build has returned
\* that error, the committed image is in the store, the container is left.
C20_Witness ==
    \E p \in DOMAIN procs :
        /\ procs[p].op = "build" /\ procs[p].pc = "returned"
        /\ procs[p].tags # <<>>
        /\ CommitDone(p) /\ AllTagsApplied(p)
        /\ \E i \in Idx(procs[p].log, "rm") : ~procs[p].log[i].ok
        /\ procs[p].ret.err = "rm"
        /\ (procs[p].prefix \o procs[p].name) \in images
        /\ procs[p].cname \in DOMAIN containers

(***************************************************************************)
(* verifyDependencies: the length and the end of a walk                    *)
(***************************************************************************)
WalkEnds == {"nil", "cyclical", "unresolved"}

\* A walk of the definitions defs that made `steps` calls is within the
\* bound and has ended in one of the three ways.
BoundedWalk(defs, r) ==
    /\ r.steps >= 1
    /\ r.steps <= Cardinality(DOMAIN defs) + 1
    /\ r.err.kind \in WalkEnds
    /\ r.err = NoError <=> r.err.kind = "nil"

\* C19: the walk of verifyDependencies from every image of every definition
\* set, with or without cycles, self-loops and cycles beside the entry
\* image, ends after at most as many calls as there are definitions plus
\* one, in success, in the cyclical-dependency error or in the
\* unresolved-parent error.
C19_WalkTerminates ==
    /\ \A n \in DOMAIN imageDefinitions :
        BoundedWalk(imageDefinitions,
                    verifyDependencies(imageDefinitions[n], imageDefinitions))
    /\ \A n \in DOMAIN walks : BoundedWalk(imageDefinitions, walks[n])

\* A walk entered beside the cycle it reaches has ended in the cyclical
\* error after as many calls as there are definitions, and the walk from an
\* image of that cycle takes one call less.
C19_Witness ==
    \E n \in DOMAIN walks :
        /\ Cardinality(DOMAIN imageDefinitions) = NumImages
        /\ ReachesCycle(imageDefinitions, n) /\ ~OnCycle(imageDefinitions, n)
        /\ walks[n].err.kind = "cyclical"
        /\ walks[n].steps = Cardinality(DOMAIN imageDefinitions)
        /\ \E m \in DOMAIN imageDefinitions :
            /\ OnCycle(imageDefinitions, m)
            /\ verifyDependencies(imageDefinitions[m], imageDefinitions).steps
                    = walks[n].steps - 1

====
